---- MODULE Spec2Model ----
(***************************************************************************)
(* logfile_check.py: grouping of F@H log records by simulation and the     *)
(* per-simulation timestamp checks (missing, duplicate, terminal value),   *)
(* followed by the text report.                                            *)
(*                                                                         *)
(* Text is modelled as sequences of pieces. Input lines, tokens and        *)
(* simulation ids are sequences of one-character strings; in the report    *)
(* the literal fragments of a format string are one piece each and the     *)
(* formatted values are one piece per character.                           *)
(***************************************************************************)
EXTENDS Integers, Sequences, FiniteSets, TLC

\* Longest timestamp sequence handed to the pure functions.
MaxLen == 4
\* Longest freely composed logfile (in lines).
MaxLines == 3

\* range(..., 100) and x + 100 == y
TS_STEP == 100
\* last_timestamp % 1000
THOUSAND == 1000

-----------------------------------------------------------------------------
(* Python values: None, list of int, bool, int, and a raised exception.    *)

PyNone == [kind |-> "None", list |-> << >>, bool |-> FALSE, int |-> 0, exc |-> ""]
PyList(l) == [kind |-> "list", list |-> l, bool |-> FALSE, int |-> 0, exc |-> ""]
PyBool(b) == [kind |-> "bool", list |-> << >>, bool |-> b, int |-> 0, exc |-> ""]
PyInt(n) == [kind |-> "int", list |-> << >>, bool |-> FALSE, int |-> n, exc |-> ""]
Raise(e) == [kind |-> "raise", list |-> << >>, bool |-> FALSE, int |-> 0, exc |-> e]

SetOf(s) == {s[i] : i \in DOMAIN s}

\* list.count(v)
Count(s, v) == Cardinality({i \in DOMAIN s : s[i] = v})

SetMin(S) == CHOOSE m \in S : \A n \in S : m <= n
SetMax(S) == CHOOSE m \in S : \A n \in S : n <= m

\* sorted(S) for a set of ints
sorted(S) ==
    [i \in 1..Cardinality(S) |-> CHOOSE x \in S : Cardinality({y \in S : y < x}) = i - 1]

\* set(range(start, stop, step)), step > 0
range(start, stop, step) ==
    {n \in start..(stop - 1) : (n - start) % step = 0}

\* min(list) / max(list): ValueError on an empty list
py_min(l) == IF Len(l) = 0 THEN Raise("ValueError") ELSE PyInt(SetMin(SetOf(l)))
py_max(l) == IF Len(l) = 0 THEN Raise("ValueError") ELSE PyInt(SetMax(SetOf(l)))

\* zip(a, b)
zip(a, b) ==
    LET n == IF Len(a) < Len(b) THEN Len(a) ELSE Len(b)
    IN  [i \in 1..n |-> <<a[i], b[i]>>]

-----------------------------------------------------------------------------
(* The four checks.                                                        *)

find_missing_timestamps_max(timestamps) ==
    IF timestamps.kind = "None" \/ Len(timestamps.list) = 0 THEN PyNone
    ELSE LET ts == timestamps.list
             correct_time_values_in_ps == range(0, SetMax(SetOf(ts)), TS_STEP)
         IN  PyList(sorted(correct_time_values_in_ps \ SetOf(ts)))

find_missing_timestamps_first(timestamps) ==
    IF timestamps.kind = "None" \/ Len(timestamps.list) = 0 THEN PyNone
    ELSE LET ts == timestamps.list
             correct_time_values_in_ps == range(ts[1], ts[Len(ts)], TS_STEP)
         IN  PyList(sorted(correct_time_values_in_ps \ SetOf(ts)))

find_missing_timestamps(timestamps) ==
    IF timestamps.kind = "None" \/ Len(timestamps.list) = 0 THEN PyNone
    ELSE LET ts == timestamps.list
             min_correct_timestamp == IF ts[1] = 0 THEN ts[1] ELSE 0
             max_correct_timestamp == ts[Len(ts)]
             correct_time_values_in_ps ==
                 range(min_correct_timestamp, max_correct_timestamp, TS_STEP)
             missing_timestamps == correct_time_values_in_ps \ SetOf(ts)
         IN  PyList(sorted(missing_timestamps))

find_duplicate_timestamps_adjacent(timestamps) ==
    IF timestamps.kind = "None" \/ Len(timestamps.list) < 2 THEN PyNone
    ELSE LET ts == timestamps.list
         IN  PyList(sorted({ts[i] : i \in {j \in 1..(Len(ts) - 1) : ts[j] = ts[j + 1]}}))

find_duplicate_timestamps(timestamps) ==
    IF timestamps.kind = "None" \/ Len(timestamps.list) < 2 THEN PyNone
    ELSE LET ts == timestamps.list
             duplicate_timestamps == {ts[i] : i \in {j \in DOMAIN ts : Count(ts, ts[j]) > 1}}
         IN  PyList(sorted(duplicate_timestamps))

is_strictly_increasing_nogap(timestamps) ==
    IF timestamps.kind = "None" \/ Len(timestamps.list) = 0 THEN PyBool(TRUE)
    ELSE LET ts == timestamps.list
             pairs == zip(ts, Tail(ts))
         IN  PyBool(\A i \in DOMAIN pairs : pairs[i][1] < pairs[i][2])

is_strictly_increasing(timestamps) ==
    IF timestamps.kind = "None" \/ Len(timestamps.list) = 0 THEN PyBool(TRUE)
    ELSE LET ts == timestamps.list
             pairs == zip(ts, Tail(ts))
         IN  PyBool(\A i \in DOMAIN pairs :
                        pairs[i][1] < pairs[i][2] /\ pairs[i][1] + TS_STEP = pairs[i][2])

is_last_ts_in_thousands(timestamps) ==
    IF timestamps.kind = "None" THEN PyBool(TRUE)
    ELSE LET last_timestamp == py_max(timestamps.list)
         IN  IF last_timestamp.kind = "raise" THEN last_timestamp
             ELSE PyBool(last_timestamp.int % THOUSAND = 0)

-----------------------------------------------------------------------------
(* Text: str.split(), str.split(':'), int(), str(), ", ".join().           *)

Whitespace == {" ", "\t", "\n"}
Digits == {"0", "1", "2", "3", "4", "5", "6", "7", "8", "9"}

DigitVal(c) ==
    CASE c = "0" -> 0 [] c = "1" -> 1 [] c = "2" -> 2 [] c = "3" -> 3
      [] c = "4" -> 4 [] c = "5" -> 5 [] c = "6" -> 6 [] c = "7" -> 7
      [] c = "8" -> 8 [] c = "9" -> 9

DigitChar(d) ==
    CASE d = 0 -> "0" [] d = 1 -> "1" [] d = 2 -> "2" [] d = 3 -> "3"
      [] d = 4 -> "4" [] d = 5 -> "5" [] d = 6 -> "6" [] d = 7 -> "7"
      [] d = 8 -> "8" [] d = 9 -> "9"

\* line.split(): fields between runs of whitespace, no empty fields
RECURSIVE split_ws(_, _, _)
split_ws(s, cur, acc) ==
    IF s = << >> THEN (IF cur = << >> THEN acc ELSE Append(acc, cur))
    ELSE IF Head(s) \in Whitespace
         THEN split_ws(Tail(s), << >>, IF cur = << >> THEN acc ELSE Append(acc, cur))
         ELSE split_ws(Tail(s), Append(cur, Head(s)), acc)

split(line) == split_ws(line, << >>, << >>)

\* s.split(sep): every separator cuts, empty fields are kept
RECURSIVE split_sep(_, _, _, _)
split_sep(s, sep, cur, acc) ==
    IF s = << >> THEN Append(acc, cur)
    ELSE IF Head(s) = sep
         THEN split_sep(Tail(s), sep, << >>, Append(acc, cur))
         ELSE split_sep(Tail(s), sep, Append(cur, Head(s)), acc)

RECURSIVE digits_value(_, _)
digits_value(ds, acc) ==
    IF ds = << >> THEN acc ELSE digits_value(Tail(ds), 10 * acc + DigitVal(Head(ds)))

\* int(token): optional sign, then one or more decimal digits; else ValueError
int(token) ==
    LET signed == token /= << >> /\ Head(token) \in {"+", "-"}
        ds == IF signed THEN Tail(token) ELSE token
    IN  IF ds = << >> \/ \E i \in DOMAIN ds : ds[i] \notin Digits
        THEN Raise("ValueError")
        ELSE PyInt(IF signed /\ Head(token) = "-" THEN 0 - digits_value(ds, 0)
                   ELSE digits_value(ds, 0))

RECURSIVE nat_str(_)
nat_str(n) ==
    IF n < 10 THEN <<DigitChar(n)>> ELSE Append(nat_str(n \div 10), DigitChar(n % 10))

\* str(n)
str(n) == IF n < 0 THEN <<"-">> \o nat_str(0 - n) ELSE nat_str(n)

\* ", ".join(str(v) for v in values)
RECURSIVE join(_)
join(values) ==
    IF values = << >> THEN << >>
    ELSE IF Len(values) = 1 THEN str(values[1])
    ELSE LET half == Len(values) \div 2
         IN  join(SubSeq(values, 1, half)) \o <<", ">>
             \o join(SubSeq(values, half + 1, Len(values)))

\* f"{project_number}:{run_number}:{clone_number}"
simulation_id_of(fields) == fields[1] \o <<":">> \o fields[2] \o <<":">> \o fields[3]

format_simulation_id(simulation_id) ==
    IF simulation_id = << >> THEN PyNone
    ELSE LET parts == split_sep(simulation_id, ":", << >>, << >>)
         IN  IF Len(parts) /= 3 THEN Raise("ValueError")
             ELSE PyList(<<"PROJ">> \o parts[1] \o <<"/RUN">> \o parts[2]
                         \o <<"/CLONE">> \o parts[3])

\* SimCheckResult.__init__
SimCheckResult ==
    [missing_timestamps |-> PyNone,
     duplicate_timestamps |-> PyNone,
     is_last_ts_in_thousands |-> FALSE,
     simulation_id |-> << >>,
     last_timestamp |-> PyNone]

-----------------------------------------------------------------------------
(* dict: Python dicts keep insertion order; a dict is the sequence of its  *)
(* items in that order, with unique keys.                                  *)

dict_keys(d) == {d[i].key : i \in DOMAIN d}
dict_get(d, k) == d[CHOOSE i \in DOMAIN d : d[i].key = k].value
dict_set(d, k, v) ==
    IF k \in dict_keys(d)
    THEN [i \in DOMAIN d |-> IF d[i].key = k THEN [key |-> k, value |-> v] ELSE d[i]]
    ELSE Append(d, [key |-> k, value |-> v])

-----------------------------------------------------------------------------
(* Input files.                                                            *)

\* one record per line, fields separated by one space
RECURSIVE fields_text(_)
fields_text(fields) ==
    IF fields = << >> THEN << >>
    ELSE IF Len(fields) = 1 THEN fields[1]
    ELSE fields[1] \o <<" ">> \o fields_text(Tail(fields))

LineOf(fields) == fields_text(fields) \o <<"\n">>

Lines ==
    { LineOf(<<(<<"1">>), (<<"0">>), (<<"0">>), (<<"0">>)>>),
      <<" ", "1", "\t", "0", " ", " ", "0", " ", "0", "1", "0", "0", "\n">>,
      LineOf(<<(<<"1">>), (<<"0">>), (<<"0">>), (<<"1", "0", "0", "0">>)>>),
      LineOf(<<(<<"2">>), (<<"0">>), (<<"0">>), (<<"0">>)>>),
      LineOf(<<(<<"2">>), (<<"0">>), (<<"0">>), (<<"1", "0", "0", "0">>)>>),
      LineOf(<<(<<"x">>), (<<"0">>), (<<"0">>), (<<"1", "0", "0">>)>>),
      LineOf(<<(<<"1", ":", "1">>), (<<"0">>), (<<"0">>), (<<"0">>)>>),
      LineOf(<<(<<"1">>), (<<"0">>), (<<"0">>), (<<"x">>)>>),
      LineOf(<<(<<"1">>), (<<"0">>), (<<"0">>)>>),
      LineOf(<<(<<"1">>), (<<"0">>), (<<"0">>), (<<"1", "0", "0">>), (<<"5">>)>>),
      <<"\n">> }

\* the log of one simulation 1797:0:0 with the given timestamps
LogOf(values) ==
    [i \in DOMAIN values |->
        LineOf(<<(<<"1", "7", "9", "7">>), (<<"0">>), (<<"0">>), str(values[i])>>)]

ExtraLogs ==
    { LogOf([i \in 1..11 |-> (i - 1) * 100]),
      LogOf(<<0, 100, 200, 500, 600, 1000, 1400>>),
      LogOf(<<200, 500, 600, 1000, 1400>>),
      LogOf(<<0, 100, 200, 300, 500, 500, 600, 1200, 1200>>),
      LogOf(<<1100, 1200>>),
      LogOf(<<12000>>) }

Logs == UNION {[1..n -> Lines] : n \in 0..MaxLines} \cup ExtraLogs

TsValues == {-100, 0, 50, 100, 200, 1000}

Arguments ==
    {PyNone} \cup {PyList(l) : l \in UNION {[1..n -> TsValues] : n \in 0..MaxLen}}

-----------------------------------------------------------------------------
VARIABLES
    logfile,        \* the lines of the input file
    pc,             \* where __main__ is: read, check, open, print, done, error
    line_no,        \* lines consumed by read_logfile's loop
    logfile_data,   \* read_logfile's dict: simulation_id -> list of int
    check_result,   \* check's dict: simulation_id -> SimCheckResult
    checked,        \* items of logfile_data visited by check's loop
    outfile,        \* the output file: opened or not, and the lines written
    printed,        \* items of check_result visited by print_to_file's loop
    error,          \* the exception that ended the run, and where it was raised
    timestamps,     \* argument of a direct call of one of the four checks
    called,         \* which check was called directly
    result,         \* what it returned (or raised)
    before          \* the result before an interior element was removed

vars == <<logfile, pc, line_no, logfile_data, check_result, checked, outfile,
          printed, error, timestamps, called, result, before>>

main_vars == <<logfile, pc, line_no, logfile_data, check_result, checked, outfile,
               printed, error>>
call_vars == <<timestamps, called, result, before>>

NoError == [exc |-> "", where |-> ""]

MainStart ==
    /\ pc = "read"
    /\ line_no = 0
    /\ logfile_data = << >>
    /\ check_result = << >>
    /\ checked = 0
    /\ outfile = [opened |-> FALSE, lines |-> << >>]
    /\ printed = 0
    /\ error = NoError

CallStart ==
    /\ called = "none"
    /\ result = PyNone
    /\ before = PyNone

Init ==
    /\ logfile \in Logs
    /\ MainStart
    /\ timestamps = PyNone
    /\ CallStart

-----------------------------------------------------------------------------
(* read_logfile                                                            *)

store_replace(data, simulation_id, timestamp) ==
    dict_set(data, simulation_id, <<timestamp>>)

store_empty(data, simulation_id, timestamp) ==
    IF simulation_id \notin dict_keys(data)
    THEN dict_set(data, simulation_id, << >>)
    ELSE dict_set(data, simulation_id, Append(dict_get(data, simulation_id), timestamp))

\* the first timestamp of a simulation starts its list, the later ones are
\* appended (no value of the dict is ever None)
store(data, simulation_id, timestamp) ==
    IF simulation_id \notin dict_keys(data)
    THEN dict_set(data, simulation_id, <<timestamp>>)
    ELSE dict_set(data, simulation_id, Append(dict_get(data, simulation_id), timestamp))

\* one iteration of "for line in logfile_handle"
ReadLine ==
    /\ pc = "read"
    /\ line_no < Len(logfile)
    /\ LET fields == split(logfile[line_no + 1])
       IN  IF Len(fields) /= 4
           THEN /\ pc' = "error"
                /\ error' = [exc |-> "ValueError", where |-> "read_logfile"]
                /\ UNCHANGED <<line_no, logfile_data>>
           ELSE LET simulation_id == simulation_id_of(fields)
                    timestamp_in_ps == int(fields[4])
                IN  IF timestamp_in_ps.kind = "raise"
                    THEN /\ pc' = "error"
                         /\ error' = [exc |-> timestamp_in_ps.exc,
                                      where |-> "read_logfile"]
                         /\ UNCHANGED <<line_no, logfile_data>>
                    ELSE /\ logfile_data' =
                              store(logfile_data, simulation_id, timestamp_in_ps.int)
                         /\ line_no' = line_no + 1
                         /\ UNCHANGED <<pc, error>>
    /\ UNCHANGED <<logfile, check_result, checked, outfile, printed>>
    /\ UNCHANGED call_vars

\* end of file: close and return logfile_data to check
ReadReturn ==
    /\ pc = "read"
    /\ line_no = Len(logfile)
    /\ pc' = "check"
    /\ UNCHANGED <<logfile, line_no, logfile_data, check_result, checked, outfile,
                   printed, error>>
    /\ UNCHANGED call_vars

-----------------------------------------------------------------------------
(* check                                                                   *)

last_timestamp_positional(ts) ==
    IF Len(ts) = 0 THEN Raise("IndexError") ELSE PyInt(ts[Len(ts)])

\* sim_check_result.last_timestamp = max(timestamps)
last_timestamp_of(ts) == py_max(ts)

\* the body of check's loop for one list of timestamps: the exception it
\* raises (None if it raises none) and the SimCheckResult it builds
sim_check(ts) ==
    LET increasing == is_strictly_increasing(PyList(ts)).bool
        minimum == IF increasing THEN py_min(ts) ELSE PyNone
        look_for_missing == ~increasing \/ (minimum.kind = "int" /\ minimum.int /= 0)
        in_thousands == is_last_ts_in_thousands(PyList(ts))
        maximum == last_timestamp_of(ts)
        raised == IF minimum.kind = "raise" THEN minimum
                  ELSE IF in_thousands.kind = "raise" THEN in_thousands
                  ELSE IF maximum.kind = "raise" THEN maximum
                  ELSE PyNone
    IN  [raised |-> raised,
         value |->
            [SimCheckResult EXCEPT
                !.missing_timestamps =
                    IF look_for_missing THEN find_missing_timestamps(PyList(ts)) ELSE @,
                !.duplicate_timestamps = find_duplicate_timestamps(PyList(ts)),
                !.is_last_ts_in_thousands = in_thousands.bool,
                !.last_timestamp = maximum]]

\* one iteration of "for simulation_id, timestamps in logfile_data.items()"
CheckSim ==
    /\ pc = "check"
    /\ checked < Len(logfile_data)
    /\ LET item == logfile_data[checked + 1]
           outcome == sim_check(item.value)
       IN  IF outcome.raised.kind = "raise"
           THEN /\ pc' = "error"
                /\ error' = [exc |-> outcome.raised.exc, where |-> "check"]
                /\ UNCHANGED <<check_result, checked>>
           ELSE /\ check_result' = dict_set(check_result, item.key, outcome.value)
                /\ checked' = checked + 1
                /\ UNCHANGED <<pc, error>>
    /\ UNCHANGED <<logfile, line_no, logfile_data, outfile, printed>>
    /\ UNCHANGED call_vars

\* check returns check_result to __main__, which calls print_to_file
CheckReturn ==
    /\ pc = "check"
    /\ checked = Len(logfile_data)
    /\ pc' = "open"
    /\ UNCHANGED <<logfile, line_no, logfile_data, check_result, checked, outfile,
                   printed, error>>
    /\ UNCHANGED call_vars

-----------------------------------------------------------------------------
(* print_to_file                                                           *)

no_issues(sim_check_result) ==
    /\ \/ sim_check_result.missing_timestamps.kind = "None"
       \/ Len(sim_check_result.missing_timestamps.list) = 0
    /\ \/ sim_check_result.duplicate_timestamps.kind = "None"
       \/ Len(sim_check_result.duplicate_timestamps.list) = 0
    /\ sim_check_result.is_last_ts_in_thousands

\* f"{sim_check_result.last_timestamp}"
format_value(v) == IF v.kind = "None" THEN <<"None">> ELSE str(v.int)

\* the lines written below the heading of one simulation
issue_lines(sim_check_result) ==
    IF no_issues(sim_check_result) THEN << <<"\tNo issues found\n">> >>
    ELSE (IF /\ sim_check_result.missing_timestamps.kind /= "None"
             /\ Len(sim_check_result.missing_timestamps.list) > 0
          THEN << <<"\tMissing timestamps: ">>
                  \o join(sim_check_result.missing_timestamps.list) \o <<"\n">> >>
          ELSE << >>)
         \o
         (IF /\ sim_check_result.duplicate_timestamps.kind /= "None"
             /\ Len(sim_check_result.duplicate_timestamps.list) > 0
          THEN << <<"\tDuplicate timestamps: ">>
                  \o join(sim_check_result.duplicate_timestamps.list) \o <<"\n">> >>
          ELSE << >>)
         \o
         (IF ~sim_check_result.is_last_ts_in_thousands
          THEN << <<"\tLast timestamp (">>
                  \o format_value(sim_check_result.last_timestamp)
                  \o <<"ps) is not in thousands\n">> >>
          ELSE << >>)

\* open(outfile, 'w+')
OpenOutfile ==
    /\ pc = "open"
    /\ outfile' = [opened |-> TRUE, lines |-> << >>]
    /\ pc' = "print"
    /\ UNCHANGED <<logfile, line_no, logfile_data, check_result, checked, printed,
                   error>>
    /\ UNCHANGED call_vars

\* one iteration of "for simulation_id, sim_check_result in check_result.items()"
PrintSim ==
    /\ pc = "print"
    /\ printed < Len(check_result)
    /\ LET item == check_result[printed + 1]
           formatted_simulation_id == format_simulation_id(item.key)
       IN  IF formatted_simulation_id.kind /= "list"
           THEN /\ pc' = "error"
                /\ error' = [exc |-> IF formatted_simulation_id.kind = "raise"
                                     THEN formatted_simulation_id.exc
                                     ELSE "TypeError",
                             where |-> "print_to_file"]
                /\ UNCHANGED <<outfile, printed>>
           ELSE /\ outfile' =
                      [outfile EXCEPT !.lines =
                          @ \o << formatted_simulation_id.list \o <<"\n">> >>
                            \o issue_lines(item.value)]
                /\ printed' = printed + 1
                /\ UNCHANGED <<pc, error>>
    /\ UNCHANGED <<logfile, line_no, logfile_data, check_result, checked>>
    /\ UNCHANGED call_vars

\* outfile_handle.close()
CloseOutfile ==
    /\ pc = "print"
    /\ printed = Len(check_result)
    /\ pc' = "done"
    /\ UNCHANGED <<logfile, line_no, logfile_data, check_result, checked, outfile,
                   printed, error>>
    /\ UNCHANGED call_vars

Next ==
    \/ ReadLine
    \/ ReadReturn
    \/ CheckSim
    \/ CheckReturn
    \/ OpenOutfile
    \/ PrintSim
    \/ CloseOutfile

Spec == Init /\ [][Next]_vars

-----------------------------------------------------------------------------
(* Direct calls of the four checks, as the unit tests make them.           *)

InitCall ==
    /\ logfile = << >>
    /\ MainStart
    /\ timestamps \in Arguments
    /\ CallStart

Call(name, value) ==
    /\ called = "none"
    /\ called' = name
    /\ result' = value
    /\ UNCHANGED <<timestamps, before>>
    /\ UNCHANGED main_vars

CallFindMissing ==
    Call("find_missing_timestamps", find_missing_timestamps(timestamps))

CallFindDuplicate ==
    Call("find_duplicate_timestamps", find_duplicate_timestamps(timestamps))

CallIsStrictlyIncreasing ==
    Call("is_strictly_increasing", is_strictly_increasing(timestamps))

CallIsLastTsInThousands ==
    Call("is_last_ts_in_thousands", is_last_ts_in_thousands(timestamps))

\* s with the element at position i taken out
remove_at(s, i) == SubSeq(s, 1, i - 1) \o SubSeq(s, i + 1, Len(s))

\* a second call of find_missing_timestamps, on the sequence without one of
\* its interior elements
CallFindMissingWithout ==
    /\ called = "find_missing_timestamps"
    /\ timestamps.kind = "list"
    /\ \E i \in 2..(Len(timestamps.list) - 1) :
          /\ timestamps' = PyList(remove_at(timestamps.list, i))
          /\ before' = result
          /\ result' = find_missing_timestamps(timestamps')
    /\ called' = "find_missing_timestamps_without"
    /\ UNCHANGED main_vars

NextCall ==
    \/ CallFindMissing
    \/ CallFindDuplicate
    \/ CallIsStrictlyIncreasing
    \/ CallIsLastTsInThousands
    \/ CallFindMissingWithout

SpecCall == InitCall /\ [][NextCall]_vars

-----------------------------------------------------------------------------
(* Properties of the four checks, under SpecCall.                          *)

NoData == timestamps.kind = "None" \/ Len(timestamps.list) = 0

StrictlyAscending(l) == \A i, j \in DOMAIN l : i < j => l[i] < l[j]

\* C1: for a non-empty sequence s, find_missing_timestamps(s) is the
\* ascending, repeat-free list of exactly the multiples of 100 in [0, L)
\* that do not occur in s, L being the positionally last element of s and
\* the range starting at 0 whatever the first element is; for None and for
\* the empty list it returns None, not an empty list.
C1_FindMissing ==
    called = "find_missing_timestamps" =>
        IF NoData THEN result = PyNone
        ELSE LET s == timestamps.list
                 L == s[Len(s)]
             IN  /\ result.kind = "list"
                 /\ StrictlyAscending(result.list)
                 /\ SetOf(result.list) =
                        {n \in 0..(L - 1) : n % 100 = 0 /\ \A i \in DOMAIN s : s[i] /= n}

\* a sequence that neither starts at 0 nor ends in its maximum, with
\* something missing below its last element
C1_Witness ==
    /\ called = "find_missing_timestamps"
    /\ timestamps.kind = "list"
    /\ Len(timestamps.list) >= 2
    /\ timestamps.list[1] /= 0
    /\ \E i \in DOMAIN timestamps.list :
          timestamps.list[i] > timestamps.list[Len(timestamps.list)]
    /\ result.kind = "list"
    /\ Len(result.list) > 0

\* C2: for a sequence s of length >= 2, find_duplicate_timestamps(s) is
\* strictly ascending and holds v iff v occurs at least twice anywhere in s;
\* for None and for sequences of length 0 or 1 it returns None.
C2_FindDuplicate ==
    called = "find_duplicate_timestamps" =>
        IF timestamps.kind = "None" \/ Len(timestamps.list) < 2 THEN result = PyNone
        ELSE LET s == timestamps.list
             IN  /\ result.kind = "list"
                 /\ StrictlyAscending(result.list)
                 /\ \A v \in SetOf(s) \cup SetOf(result.list) :
                        v \in SetOf(result.list)
                            <=> \E i, j \in DOMAIN s : i /= j /\ s[i] = v /\ s[j] = v

\* a value repeated at two positions that are not adjacent
C2_Witness ==
    /\ called = "find_duplicate_timestamps"
    /\ timestamps.kind = "list"
    /\ \E i, j \in DOMAIN timestamps.list :
          /\ i + 1 < j
          /\ timestamps.list[i] = timestamps.list[j]
          /\ \A k \in (i + 1)..(j - 1) : timestamps.list[k] /= timestamps.list[i]
          /\ \E k \in DOMAIN result.list : result.list[k] = timestamps.list[i]

\* C3: is_last_ts_in_thousands(s) is true iff max(s) is a multiple of 1000
\* for a non-empty s, and is true, without failing, for None and for the
\* empty sequence.
C3_LastTsInThousands ==
    called = "is_last_ts_in_thousands" =>
        IF NoData THEN result = PyBool(TRUE)
        ELSE result = PyBool(SetMax(SetOf(timestamps.list)) % 1000 = 0)

\* C4: is_strictly_increasing(s) is true iff every consecutive pair (x, y)
\* of s, in input order, has x < y and y - x = 100; so it is true for None,
\* the empty sequence and every one-element sequence, and false when there
\* is a gap other than 100, a repeated value or a descending pair.
C4_StrictlyIncreasing ==
    called = "is_strictly_increasing" =>
        /\ result.kind = "bool"
        /\ timestamps.kind = "None" => result.bool
        /\ timestamps.kind = "list" =>
              LET s == timestamps.list
              IN  /\ result.bool <=>
                        \A i \in 1..(Len(s) - 1) : s[i] < s[i + 1] /\ s[i + 1] - s[i] = 100
                  /\ Len(s) <= 1 => result.bool
                  /\ (\E i \in 1..(Len(s) - 1) : s[i] >= s[i + 1]) => ~result.bool

\* an ascending sequence rejected only for a gap that is not 100
C4_Witness ==
    /\ called = "is_strictly_increasing"
    /\ timestamps.kind = "list"
    /\ Len(timestamps.list) >= 2
    /\ \A i \in 1..(Len(timestamps.list) - 1) :
          timestamps.list[i] < timestamps.list[i + 1]
    /\ result = PyBool(FALSE)

\* C8: removing an element of s that is neither the first nor the last
\* (s of length >= 3) can only add values to what find_missing_timestamps
\* reports, never remove one.
C8_RemovalMonotonic ==
    called = "find_missing_timestamps_without" =>
        /\ before.kind = "list"
        /\ result.kind = "list"
        /\ SetOf(before.list) \subseteq SetOf(result.list)

\* the removal made a value missing that was not missing before
C8_Witness ==
    /\ called = "find_missing_timestamps_without"
    /\ before.kind = "list"
    /\ result.kind = "list"
    /\ Len(before.list) > 0
    /\ Len(result.list) > Len(before.list)

-----------------------------------------------------------------------------
(* Properties of a run of __main__, under Spec.                            *)

\* the lines read_logfile has consumed so far
Consumed == SubSeq(logfile, 1, line_no)

IdentityOf(line) == simulation_id_of(split(line))
TimestampOf(line) == int(split(line)[4]).int

RECURSIVE TimestampsOf(_, _)
TimestampsOf(lines, id) ==
    IF lines = << >> THEN << >>
    ELSE (IF IdentityOf(Head(lines)) = id THEN <<TimestampOf(Head(lines))>> ELSE << >>)
         \o TimestampsOf(Tail(lines), id)

UniqueKeys(d) == \A i, j \in DOMAIN d : d[i].key = d[j].key => i = j

\* the mapping holds exactly the identities of the consumed lines, each with
\* the timestamps of its lines in input order
C5_Mapping ==
    /\ UniqueKeys(logfile_data)
    /\ dict_keys(logfile_data) = {IdentityOf(Consumed[i]) : i \in DOMAIN Consumed}
    /\ \A i \in DOMAIN logfile_data :
          logfile_data[i].value = TimestampsOf(Consumed, logfile_data[i].key)

\* one more line appends one timestamp to one identity's list
C5_OneMoreLine ==
    line_no' = line_no + 1 =>
        LET id == IdentityOf(logfile[line_no'])
            old == IF id \in dict_keys(logfile_data) THEN dict_get(logfile_data, id)
                   ELSE << >>
        IN  /\ dict_keys(logfile_data') = dict_keys(logfile_data) \cup {id}
            /\ dict_get(logfile_data', id) = Append(old, TimestampOf(logfile[line_no']))
            /\ \A k \in dict_keys(logfile_data) \ {id} :
                  dict_get(logfile_data', k) = dict_get(logfile_data, k)

\* C5: after read_logfile has processed a sequence of lines, the keys of
\* the mapping are exactly the simulation identities that occur in them and
\* each list is the subsequence of the timestamps of that identity's lines,
\* in input order, repeats kept, nothing sorted, dropped or moved; one more
\* line appends exactly one timestamp to exactly one list and leaves the
\* other lists unchanged.
C5_ReadLogfile == [](C5_Mapping) /\ [][C5_OneMoreLine]_vars

\* two simulations interleaved, one of them with a list that is not ascending
C5_Witness ==
    /\ Len(logfile_data) >= 2
    /\ \E i \in DOMAIN logfile_data :
          /\ Len(logfile_data[i].value) >= 2
          /\ logfile_data[i].value[1] >= logfile_data[i].value[2]
    /\ IdentityOf(logfile[1]) /= IdentityOf(logfile[2])

\* exactly four whitespace-separated fields, each of them an integer
WellFormed(line) ==
    /\ Len(split(line)) = 4
    /\ \A i \in 1..4 : int(split(line)[i]).kind = "int"

\* C6: read_logfile fails with a parse error if any line does not consist
\* of exactly four integer-parseable fields, and then the run ends with no
\* Check Result computed and nothing written to the output file.
C6_ParseError ==
    /\ (pc /= "read" /\ \E i \in DOMAIN logfile : ~WellFormed(logfile[i]))
          => (pc = "error" /\ error.where = "read_logfile")
    /\ error.where = "read_logfile" => (check_result = << >> /\ ~outfile.opened)

IsHeading(line) == line[1] = "PROJ"

\* the lines of the output file between the heading of id and the next heading
ReportOf(id) ==
    LET lines == outfile.lines
        heading == format_simulation_id(id).list \o <<"\n">>
        h == CHOOSE i \in DOMAIN lines : lines[i] = heading
        later == {j \in DOMAIN lines : j > h /\ IsHeading(lines[j])}
        stop == IF later = {} THEN Len(lines) + 1 ELSE SetMin(later)
    IN  SubSeq(lines, h + 1, stop - 1)

\* the module's definition of a good simulation
Good(s) ==
    /\ \A i, j \in DOMAIN s : s[i] = s[j] => i = j
    /\ \A n \in 0..SetMax(SetOf(s)) : n % 100 = 0 => n \in SetOf(s)
    /\ \A i \in 1..(Len(s) - 1) : s[i] < s[i + 1]
    /\ s[Len(s)] % 1000 = 0

\* C7: a simulation of an accepted log is reported with 'No issues found'
\* iff its timestamps, in input order, are non-duplicated, non-skipped and
\* monotonically increasing and its last timestamp is a multiple of 1000.
C7_NoIssuesIffGood ==
    pc = "done" =>
        \A i \in DOMAIN logfile_data :
            (ReportOf(logfile_data[i].key) = << <<"\tNo issues found\n">> >>)
                <=> Good(logfile_data[i].value)

\* the number printed in a 'Last timestamp (...) is not in thousands' line
PrintedLast(line) == int(SubSeq(line, 2, Len(line) - 1))

\* C9: the last_timestamp of every Check Result is the maximum of that
\* identity's sequence, not its positionally last element, and the value
\* printed in the 'Last timestamp (...) is not in thousands' line is that
\* maximum.
C9_LastIsMaximum ==
    /\ \A i \in DOMAIN check_result :
          check_result[i].value.last_timestamp =
              PyInt(SetMax(SetOf(dict_get(logfile_data, check_result[i].key))))
    /\ \A i \in 1..printed :
          LET report == ReportOf(check_result[i].key)
          IN  \A j \in DOMAIN report :
                  report[j][1] = "\tLast timestamp (" =>
                      PrintedLast(report[j]) =
                          PyInt(SetMax(SetOf(dict_get(logfile_data, check_result[i].key))))

\* an unsorted simulation whose last line is printed with a value that is
\* not its positionally last timestamp
C9_Witness ==
    /\ pc = "done"
    /\ \E i \in 1..printed :
          LET ts == dict_get(logfile_data, check_result[i].key)
              report == ReportOf(check_result[i].key)
          IN  /\ ts[Len(ts)] < SetMax(SetOf(ts))
              /\ \E j \in DOMAIN report :
                    /\ report[j][1] = "\tLast timestamp ("
                    /\ PrintedLast(report[j]).int /= ts[Len(ts)]

\* check has returned its result
CheckReturned ==
    \/ pc \in {"open", "print", "done"}
    \/ pc = "error" /\ error.where = "print_to_file"

\* C10: every identity of an accepted log has at least one timestamp, so
\* check never fails on the minimum or maximum of an empty sequence: it
\* completes with the same identity keys as the mapping and one Check Result
\* per identity whose terminal-value flag and last timestamp are set.
C10_CheckCompletes ==
    /\ \A i \in DOMAIN logfile_data : Len(logfile_data[i].value) >= 1
    /\ error.where /= "check"
    /\ CheckReturned =>
          /\ Len(check_result) = Len(logfile_data)
          /\ UniqueKeys(check_result)
          /\ dict_keys(check_result) = dict_keys(logfile_data)
          /\ \A i \in DOMAIN check_result :
                LET ts == dict_get(logfile_data, check_result[i].key)
                    r == check_result[i].value
                IN  /\ r.last_timestamp.kind = "int"
                    /\ r.is_last_ts_in_thousands = (SetMax(SetOf(ts)) % 1000 = 0)

\* check has returned results for two simulations, one of them a single
\* timestamp that is not in thousands
C10_Witness ==
    /\ CheckReturned
    /\ Len(check_result) >= 2
    /\ \E i \in DOMAIN check_result :
          /\ Len(dict_get(logfile_data, check_result[i].key)) = 1
          /\ ~check_result[i].value.is_last_ts_in_thousands

====
